---- MODULE Spec2Model ----
(***************************************************************************)
(* A model of the daily-note task report (report.py, datemodel.py).        *)
(*                                                                         *)
(* A text line is a sequence of characters, each a string: a printable     *)
(* ASCII character and "\t", "\n", "\f", "\r" stand for themselves, every  *)
(* other character is written by its code point, "U+3000".  The two glyphs *)
(* of the source's patterns are written with stand-ins:                    *)
(*   "S" is the start glyph U+1F6EB (airplane departure),                  *)
(*   "D" is the done glyph  U+2705  (white heavy check mark).              *)
(* A date is a tuple <<year, month, day>>; Python's None is the empty      *)
(* tuple.  A function of the source that can raise returns a record whose  *)
(* field exc names the exception ("None" when it returns normally).        *)
(***************************************************************************)
EXTENDS Integers, Sequences, FiniteSets, TLC

VARIABLES
    files,       \* which of config.json / today's note can be opened
    today,       \* date.today() / datetime.now(), the same day all through the run
    note,        \* the lines of today's note, as f.readlines() returns them
    synth,       \* the parts a synthetic note line was put together from
    pc,          \* position of main()
    task_lines,  \* main's task_lines list (format_tasks deletes from its front)
    task_list,   \* format_tasks' task_list
    blocks,      \* the strings write_table has returned so far
    printed,     \* everything print() has written, one entry per call
    exc,         \* the exception that ended the run, "None" while there is none
    g_in,        \* group pass: the tasks handed to the pass
    g_out,       \* group pass: the tasks it returned
    g_pc         \* group pass: position

vars == <<files, today, note, synth, pc, task_lines, task_list, blocks, printed, exc,
          g_in, g_out, g_pc>>

group_vars == <<g_in, g_out, g_pc>>

-----------------------------------------------------------------------------
(* Characters and the str / re primitives the source uses.                 *)

None == <<>>

START_GLYPH == "S"

DONE_GLYPH == "D"

\* the characters for which str.isspace() holds, which are the characters
\* the regex class \s matches in a str pattern (Unicode 14)
Whitespace ==
    {"\t", "\n", "U+000B", "\f", "\r", "U+001C", "U+001D", "U+001E",
     "U+001F", " ", "U+0085", "U+00A0", "U+1680", "U+2000", "U+2001",
     "U+2002", "U+2003", "U+2004", "U+2005", "U+2006", "U+2007", "U+2008",
     "U+2009", "U+200A", "U+2028", "U+2029", "U+202F", "U+205F", "U+3000"}

\* the decimal digits (Unicode category Nd, Unicode 14), one row per script,
\* each row in the order zero to nine
DecimalDigits ==
    <<<<"0", "1", "2", "3", "4", "5", "6", "7", "8", "9">>,
      <<"U+0660", "U+0661", "U+0662", "U+0663", "U+0664", "U+0665", "U+0666", "U+0667", "U+0668", "U+0669">>,
      <<"U+06F0", "U+06F1", "U+06F2", "U+06F3", "U+06F4", "U+06F5", "U+06F6", "U+06F7", "U+06F8", "U+06F9">>,
      <<"U+07C0", "U+07C1", "U+07C2", "U+07C3", "U+07C4", "U+07C5", "U+07C6", "U+07C7", "U+07C8", "U+07C9">>,
      <<"U+0966", "U+0967", "U+0968", "U+0969", "U+096A", "U+096B", "U+096C", "U+096D", "U+096E", "U+096F">>,
      <<"U+09E6", "U+09E7", "U+09E8", "U+09E9", "U+09EA", "U+09EB", "U+09EC", "U+09ED", "U+09EE", "U+09EF">>,
      <<"U+0A66", "U+0A67", "U+0A68", "U+0A69", "U+0A6A", "U+0A6B", "U+0A6C", "U+0A6D", "U+0A6E", "U+0A6F">>,
      <<"U+0AE6", "U+0AE7", "U+0AE8", "U+0AE9", "U+0AEA", "U+0AEB", "U+0AEC", "U+0AED", "U+0AEE", "U+0AEF">>,
      <<"U+0B66", "U+0B67", "U+0B68", "U+0B69", "U+0B6A", "U+0B6B", "U+0B6C", "U+0B6D", "U+0B6E", "U+0B6F">>,
      <<"U+0BE6", "U+0BE7", "U+0BE8", "U+0BE9", "U+0BEA", "U+0BEB", "U+0BEC", "U+0BED", "U+0BEE", "U+0BEF">>,
      <<"U+0C66", "U+0C67", "U+0C68", "U+0C69", "U+0C6A", "U+0C6B", "U+0C6C", "U+0C6D", "U+0C6E", "U+0C6F">>,
      <<"U+0CE6", "U+0CE7", "U+0CE8", "U+0CE9", "U+0CEA", "U+0CEB", "U+0CEC", "U+0CED", "U+0CEE", "U+0CEF">>,
      <<"U+0D66", "U+0D67", "U+0D68", "U+0D69", "U+0D6A", "U+0D6B", "U+0D6C", "U+0D6D", "U+0D6E", "U+0D6F">>,
      <<"U+0DE6", "U+0DE7", "U+0DE8", "U+0DE9", "U+0DEA", "U+0DEB", "U+0DEC", "U+0DED", "U+0DEE", "U+0DEF">>,
      <<"U+0E50", "U+0E51", "U+0E52", "U+0E53", "U+0E54", "U+0E55", "U+0E56", "U+0E57", "U+0E58", "U+0E59">>,
      <<"U+0ED0", "U+0ED1", "U+0ED2", "U+0ED3", "U+0ED4", "U+0ED5", "U+0ED6", "U+0ED7", "U+0ED8", "U+0ED9">>,
      <<"U+0F20", "U+0F21", "U+0F22", "U+0F23", "U+0F24", "U+0F25", "U+0F26", "U+0F27", "U+0F28", "U+0F29">>,
      <<"U+1040", "U+1041", "U+1042", "U+1043", "U+1044", "U+1045", "U+1046", "U+1047", "U+1048", "U+1049">>,
      <<"U+1090", "U+1091", "U+1092", "U+1093", "U+1094", "U+1095", "U+1096", "U+1097", "U+1098", "U+1099">>,
      <<"U+17E0", "U+17E1", "U+17E2", "U+17E3", "U+17E4", "U+17E5", "U+17E6", "U+17E7", "U+17E8", "U+17E9">>,
      <<"U+1810", "U+1811", "U+1812", "U+1813", "U+1814", "U+1815", "U+1816", "U+1817", "U+1818", "U+1819">>,
      <<"U+1946", "U+1947", "U+1948", "U+1949", "U+194A", "U+194B", "U+194C", "U+194D", "U+194E", "U+194F">>,
      <<"U+19D0", "U+19D1", "U+19D2", "U+19D3", "U+19D4", "U+19D5", "U+19D6", "U+19D7", "U+19D8", "U+19D9">>,
      <<"U+1A80", "U+1A81", "U+1A82", "U+1A83", "U+1A84", "U+1A85", "U+1A86", "U+1A87", "U+1A88", "U+1A89">>,
      <<"U+1A90", "U+1A91", "U+1A92", "U+1A93", "U+1A94", "U+1A95", "U+1A96", "U+1A97", "U+1A98", "U+1A99">>,
      <<"U+1B50", "U+1B51", "U+1B52", "U+1B53", "U+1B54", "U+1B55", "U+1B56", "U+1B57", "U+1B58", "U+1B59">>,
      <<"U+1BB0", "U+1BB1", "U+1BB2", "U+1BB3", "U+1BB4", "U+1BB5", "U+1BB6", "U+1BB7", "U+1BB8", "U+1BB9">>,
      <<"U+1C40", "U+1C41", "U+1C42", "U+1C43", "U+1C44", "U+1C45", "U+1C46", "U+1C47", "U+1C48", "U+1C49">>,
      <<"U+1C50", "U+1C51", "U+1C52", "U+1C53", "U+1C54", "U+1C55", "U+1C56", "U+1C57", "U+1C58", "U+1C59">>,
      <<"U+A620", "U+A621", "U+A622", "U+A623", "U+A624", "U+A625", "U+A626", "U+A627", "U+A628", "U+A629">>,
      <<"U+A8D0", "U+A8D1", "U+A8D2", "U+A8D3", "U+A8D4", "U+A8D5", "U+A8D6", "U+A8D7", "U+A8D8", "U+A8D9">>,
      <<"U+A900", "U+A901", "U+A902", "U+A903", "U+A904", "U+A905", "U+A906", "U+A907", "U+A908", "U+A909">>,
      <<"U+A9D0", "U+A9D1", "U+A9D2", "U+A9D3", "U+A9D4", "U+A9D5", "U+A9D6", "U+A9D7", "U+A9D8", "U+A9D9">>,
      <<"U+A9F0", "U+A9F1", "U+A9F2", "U+A9F3", "U+A9F4", "U+A9F5", "U+A9F6", "U+A9F7", "U+A9F8", "U+A9F9">>,
      <<"U+AA50", "U+AA51", "U+AA52", "U+AA53", "U+AA54", "U+AA55", "U+AA56", "U+AA57", "U+AA58", "U+AA59">>,
      <<"U+ABF0", "U+ABF1", "U+ABF2", "U+ABF3", "U+ABF4", "U+ABF5", "U+ABF6", "U+ABF7", "U+ABF8", "U+ABF9">>,
      <<"U+FF10", "U+FF11", "U+FF12", "U+FF13", "U+FF14", "U+FF15", "U+FF16", "U+FF17", "U+FF18", "U+FF19">>,
      <<"U+104A0", "U+104A1", "U+104A2", "U+104A3", "U+104A4", "U+104A5", "U+104A6", "U+104A7", "U+104A8", "U+104A9">>,
      <<"U+10D30", "U+10D31", "U+10D32", "U+10D33", "U+10D34", "U+10D35", "U+10D36", "U+10D37", "U+10D38", "U+10D39">>,
      <<"U+11066", "U+11067", "U+11068", "U+11069", "U+1106A", "U+1106B", "U+1106C", "U+1106D", "U+1106E", "U+1106F">>,
      <<"U+110F0", "U+110F1", "U+110F2", "U+110F3", "U+110F4", "U+110F5", "U+110F6", "U+110F7", "U+110F8", "U+110F9">>,
      <<"U+11136", "U+11137", "U+11138", "U+11139", "U+1113A", "U+1113B", "U+1113C", "U+1113D", "U+1113E", "U+1113F">>,
      <<"U+111D0", "U+111D1", "U+111D2", "U+111D3", "U+111D4", "U+111D5", "U+111D6", "U+111D7", "U+111D8", "U+111D9">>,
      <<"U+112F0", "U+112F1", "U+112F2", "U+112F3", "U+112F4", "U+112F5", "U+112F6", "U+112F7", "U+112F8", "U+112F9">>,
      <<"U+11450", "U+11451", "U+11452", "U+11453", "U+11454", "U+11455", "U+11456", "U+11457", "U+11458", "U+11459">>,
      <<"U+114D0", "U+114D1", "U+114D2", "U+114D3", "U+114D4", "U+114D5", "U+114D6", "U+114D7", "U+114D8", "U+114D9">>,
      <<"U+11650", "U+11651", "U+11652", "U+11653", "U+11654", "U+11655", "U+11656", "U+11657", "U+11658", "U+11659">>,
      <<"U+116C0", "U+116C1", "U+116C2", "U+116C3", "U+116C4", "U+116C5", "U+116C6", "U+116C7", "U+116C8", "U+116C9">>,
      <<"U+11730", "U+11731", "U+11732", "U+11733", "U+11734", "U+11735", "U+11736", "U+11737", "U+11738", "U+11739">>,
      <<"U+118E0", "U+118E1", "U+118E2", "U+118E3", "U+118E4", "U+118E5", "U+118E6", "U+118E7", "U+118E8", "U+118E9">>,
      <<"U+11950", "U+11951", "U+11952", "U+11953", "U+11954", "U+11955", "U+11956", "U+11957", "U+11958", "U+11959">>,
      <<"U+11C50", "U+11C51", "U+11C52", "U+11C53", "U+11C54", "U+11C55", "U+11C56", "U+11C57", "U+11C58", "U+11C59">>,
      <<"U+11D50", "U+11D51", "U+11D52", "U+11D53", "U+11D54", "U+11D55", "U+11D56", "U+11D57", "U+11D58", "U+11D59">>,
      <<"U+11DA0", "U+11DA1", "U+11DA2", "U+11DA3", "U+11DA4", "U+11DA5", "U+11DA6", "U+11DA7", "U+11DA8", "U+11DA9">>,
      <<"U+16A60", "U+16A61", "U+16A62", "U+16A63", "U+16A64", "U+16A65", "U+16A66", "U+16A67", "U+16A68", "U+16A69">>,
      <<"U+16AC0", "U+16AC1", "U+16AC2", "U+16AC3", "U+16AC4", "U+16AC5", "U+16AC6", "U+16AC7", "U+16AC8", "U+16AC9">>,
      <<"U+16B50", "U+16B51", "U+16B52", "U+16B53", "U+16B54", "U+16B55", "U+16B56", "U+16B57", "U+16B58", "U+16B59">>,
      <<"U+1D7CE", "U+1D7CF", "U+1D7D0", "U+1D7D1", "U+1D7D2", "U+1D7D3", "U+1D7D4", "U+1D7D5", "U+1D7D6", "U+1D7D7">>,
      <<"U+1D7D8", "U+1D7D9", "U+1D7DA", "U+1D7DB", "U+1D7DC", "U+1D7DD", "U+1D7DE", "U+1D7DF", "U+1D7E0", "U+1D7E1">>,
      <<"U+1D7E2", "U+1D7E3", "U+1D7E4", "U+1D7E5", "U+1D7E6", "U+1D7E7", "U+1D7E8", "U+1D7E9", "U+1D7EA", "U+1D7EB">>,
      <<"U+1D7EC", "U+1D7ED", "U+1D7EE", "U+1D7EF", "U+1D7F0", "U+1D7F1", "U+1D7F2", "U+1D7F3", "U+1D7F4", "U+1D7F5">>,
      <<"U+1D7F6", "U+1D7F7", "U+1D7F8", "U+1D7F9", "U+1D7FA", "U+1D7FB", "U+1D7FC", "U+1D7FD", "U+1D7FE", "U+1D7FF">>,
      <<"U+1E140", "U+1E141", "U+1E142", "U+1E143", "U+1E144", "U+1E145", "U+1E146", "U+1E147", "U+1E148", "U+1E149">>,
      <<"U+1E2F0", "U+1E2F1", "U+1E2F2", "U+1E2F3", "U+1E2F4", "U+1E2F5", "U+1E2F6", "U+1E2F7", "U+1E2F8", "U+1E2F9">>,
      <<"U+1E950", "U+1E951", "U+1E952", "U+1E953", "U+1E954", "U+1E955", "U+1E956", "U+1E957", "U+1E958", "U+1E959">>,
      <<"U+1FBF0", "U+1FBF1", "U+1FBF2", "U+1FBF3", "U+1FBF4", "U+1FBF5", "U+1FBF6", "U+1FBF7", "U+1FBF8", "U+1FBF9">>>>

AllDigits == {DecimalDigits[b][k] : b \in 1..Len(DecimalDigits), k \in 1..10}

\* str.isspace / the regex class \s
IsSpace(c) == c \in Whitespace

\* the regex class \d
IsDigit(c) == c \in AllDigits

\* int() of one digit
DigitVal(c) ==
    CHOOSE v \in 0..9 : \E b \in 1..Len(DecimalDigits) : DecimalDigits[b][v + 1] = c

\* int() of a two-digit field
Int2(s) == 10 * DigitVal(s[1]) + DigitVal(s[2])

\* str.rstrip()
rstrip(s) ==
    LET keep == {k \in 1..Len(s) : ~IsSpace(s[k])}
        n == IF keep = {} THEN 0 ELSE CHOOSE k \in keep : \A j \in keep : j <= k
    IN  SubSeq(s, 1, n)

\* str.strip()
strip(s) ==
    LET keep == {k \in 1..Len(s) : ~IsSpace(s[k])}
        lo == IF keep = {} THEN 1 ELSE CHOOSE k \in keep : \A j \in keep : k <= j
        hi == IF keep = {} THEN 0 ELSE CHOOSE k \in keep : \A j \in keep : j <= k
    IN  SubSeq(s, lo, hi)

\* first position >= i holding a whitespace character, Len(s)+1 when none
NextSpace(s, i) ==
    LET ws == {k \in i..Len(s) : IsSpace(s[k])}
    IN  IF ws = {} THEN Len(s) + 1 ELSE CHOOSE k \in ws : \A j \in ws : k <= j

\* first position >= i holding a non-whitespace character, Len(s)+1 when none
NextNonSpace(s, i) ==
    LET ns == {k \in i..Len(s) : ~IsSpace(s[k])}
    IN  IF ns = {} THEN Len(s) + 1 ELSE CHOOSE k \in ns : \A j \in ns : k <= j

\* re.sub(r"#\S*", "", s), from position i on
RECURSIVE sub_tags(_, _)
sub_tags(s, i) ==
    IF i > Len(s) THEN <<>>
    ELSE IF s[i] = "#" THEN sub_tags(s, NextSpace(s, i + 1))
    ELSE <<s[i]>> \o sub_tags(s, i + 1)

\* a slip: the pattern written with \t* instead of \t{,1}
RECURSIVE accept_tabs_any(_)
accept_tabs_any(s) ==
    IF Len(s) >= 1 /\ s[1] = "\t" THEN 1 + accept_tabs_any(Tail(s)) ELSE 0

\* the number of leading tabs the pattern's \t{,1} consumes
accept_tabs(s) == IF Len(s) >= 1 /\ s[1] = "\t" THEN 1 ELSE 0

\* re.fullmatch(r"^\t{,1}- \[.\] .*\n?$", s) is not None
is_task_line(s) ==
    LET t == accept_tabs(s)
    IN  /\ Len(s) >= t + 6
        /\ s[t + 1] = "-"
        /\ s[t + 2] = " "
        /\ s[t + 3] = "["
        /\ s[t + 4] # "\n"
        /\ s[t + 5] = "]"
        /\ s[t + 6] = " "
        /\ \A k \in (t + 7)..Len(s) : s[k] = "\n" => k = Len(s)

\* "- [c] " at position k, c any character but a newline
IsCheckbox(s, k) ==
    /\ k + 5 <= Len(s)
    /\ s[k] = "-"
    /\ s[k + 1] = " "
    /\ s[k + 2] = "["
    /\ s[k + 3] # "\n"
    /\ s[k + 4] = "]"
    /\ s[k + 5] = " "

\* state_pattern r"\t{,1}\- \[(.)\] " matched at position i:
\* end is the last position of the match (0: no match), ch is group 1
state_match(s, i) ==
    IF i <= Len(s) /\ s[i] = "\t" /\ IsCheckbox(s, i + 1)
        THEN [end |-> i + 6, ch |-> s[i + 4]]
    ELSE IF IsCheckbox(s, i)
        THEN [end |-> i + 5, ch |-> s[i + 3]]
    ELSE [end |-> 0, ch |-> ""]

\* \d{2}\-\d{2} at position j
IsMonthDay(s, j) ==
    /\ j + 4 <= Len(s)
    /\ IsDigit(s[j]) /\ IsDigit(s[j + 1])
    /\ s[j + 2] = "-"
    /\ IsDigit(s[j + 3]) /\ IsDigit(s[j + 4])

\* \d{4}\- at position j
IsYearDash(s, j) ==
    /\ j + 4 <= Len(s)
    /\ \A k \in j..(j + 3) : IsDigit(s[k])
    /\ s[j + 4] = "-"

\* start_pattern / done_pattern  glyph \s+? ((\d{4}\-)?(\d{2}\-\d{2}))  matched
\* at position i: end is the last position of the match (0: no match), frag
\* is the last group, the MM-DD text
marker_match(glyph, s, i) ==
    LET j == NextNonSpace(s, i + 1)
    IN  IF ~(i + 1 <= Len(s) /\ s[i] = glyph /\ IsSpace(s[i + 1]))
            THEN [end |-> 0, frag |-> None]
        ELSE IF IsYearDash(s, j) /\ IsMonthDay(s, j + 5)
            THEN [end |-> j + 9, frag |-> SubSeq(s, j + 5, j + 9)]
        ELSE IF IsMonthDay(s, j)
            THEN [end |-> j + 4, frag |-> SubSeq(s, j, j + 4)]
        ELSE [end |-> 0, frag |-> None]

\* a slip: the last match is taken instead of the first
first_marker_last(glyph, s) ==
    LET hits == {i \in 1..Len(s) : marker_match(glyph, s, i).end > 0}
    IN  IF hits = {} THEN None
        ELSE marker_match(glyph, s, CHOOSE i \in hits : \A j \in hits : j <= i).frag

\* re.findall(pattern, line)[0][-1] if there is a match else None
first_marker(glyph, s) ==
    LET hits == {i \in 1..Len(s) : marker_match(glyph, s, i).end > 0}
    IN  IF hits = {} THEN None
        ELSE marker_match(glyph, s, CHOOSE i \in hits : \A j \in hits : i <= j).frag

\* re.search(state_pattern, line): group 1 of the leftmost match, None if none
first_state(s) ==
    LET hits == {i \in 1..Len(s) : state_match(s, i).end > 0}
    IN  IF hits = {} THEN None
        ELSE <<state_match(s, CHOOSE i \in hits : \A j \in hits : i <= j).ch>>

\* re.sub("|".join([start_pattern, done_pattern, state_pattern]), "", s),
\* from position i on: the alternatives are tried in this order
RECURSIVE sub_markers(_, _)
sub_markers(s, i) ==
    IF i > Len(s) THEN <<>>
    ELSE IF marker_match(START_GLYPH, s, i).end > 0
        THEN sub_markers(s, marker_match(START_GLYPH, s, i).end + 1)
    ELSE IF marker_match(DONE_GLYPH, s, i).end > 0
        THEN sub_markers(s, marker_match(DONE_GLYPH, s, i).end + 1)
    ELSE IF state_match(s, i).end > 0
        THEN sub_markers(s, state_match(s, i).end + 1)
    ELSE <<s[i]>> \o sub_markers(s, i + 1)

-----------------------------------------------------------------------------
(* datetime.date                                                           *)

IsLeap(y) == y % 4 = 0 /\ (y % 100 # 0 \/ y % 400 = 0)

DaysInMonth(y, m) ==
    IF m = 2 THEN (IF IsLeap(y) THEN 29 ELSE 28)
    ELSE IF m \in {4, 6, 9, 11} THEN 30
    ELSE 31

\* date(y, m, d) does not raise ValueError
ValidDate(y, m, d) == m \in 1..12 /\ d >= 1 /\ d <= DaysInMonth(y, m)

\* date.__le__
DateLE(a, b) ==
    \/ a[1] < b[1]
    \/ a[1] = b[1] /\ a[2] < b[2]
    \/ a[1] = b[1] /\ a[2] = b[2] /\ a[3] <= b[3]

\* get_date(s): s is None or the MM-DD text; td is date.today()
get_date(s, td) ==
    IF s = None THEN [exc |-> "None", val |-> None]
    ELSE LET month == Int2(SubSeq(s, 1, 2))
             day == Int2(SubSeq(s, 4, 5))
             year == td[1]
         IN  IF ~ValidDate(year, month, day)
                 THEN [exc |-> "ValueError", val |-> None]
             ELSE IF DateLE(<<year, month, day>>, td)
                 THEN [exc |-> "None", val |-> <<year, month, day>>]
             ELSE IF ~ValidDate(year - 1, month, day)
                 THEN [exc |-> "ValueError", val |-> None]
             ELSE [exc |-> "None", val |-> <<year - 1, month, day>>]

-----------------------------------------------------------------------------
(* datemodel.py                                                            *)

State == {"TODO", "ONGOING", "DONE", "CANCELLED"}

\* Task.__init__
Task(title, state, start_date, done_date) ==
    [title |-> title, state |-> state, start_date |-> start_date,
     done_date |-> done_date, children |-> <<>>]

\* the Config main loads from config.json (header, footer, state_str, columns)
config ==
    [header |-> <<"H">>,
     footer |-> <<"F">>,
     state_str |-> [TODO |-> <<"t">>, ONGOING |-> <<"o">>,
                    DONE |-> <<"d">>, CANCELLED |-> <<"c">>],
     columns |-> <<<<"T">>, <<"S">>, <<"B">>, <<"E">>>>]

-----------------------------------------------------------------------------
(* report.py                                                               *)

\* get_task_lines, after the file is read: the checklist lines, tags removed
RECURSIVE get_task_lines(_)
get_task_lines(lines) ==
    IF lines = <<>> THEN <<>>
    ELSE (IF is_task_line(Head(lines))
             THEN <<rstrip(sub_tags(Head(lines), 1))>>
             ELSE <<>>) \o get_task_lines(Tail(lines))

\* count_tabs
RECURSIVE count_tabs(_)
count_tabs(line) ==
    IF Len(line) >= 1 /\ line[1] = "\t" THEN 1 + count_tabs(Tail(line)) ELSE 0

\* parse_line's match statement: the State of a state character
state_of(ch) ==
    CASE ch = " " -> "TODO"
      [] ch = "/" -> "ONGOING"
      [] ch = "x" -> "DONE"
      [] ch = "-" -> "CANCELLED"
      [] OTHER -> "invalid"

\* parse_line: exc is "None" and (task, is_parent) the returned pair, or exc
\* is the exception raised and arg the character its message carries
parse_line(line, td) ==
    LET is_parent == count_tabs(line) = 0
        start_date == get_date(first_marker(START_GLYPH, line), td)
        done_date == get_date(first_marker(DONE_GLYPH, line), td)
        m == first_state(line)
        title == strip(sub_markers(line, 1))
        raised(e, a) == [exc |-> e, arg |-> a, task |-> None, is_parent |-> is_parent]
    IN  IF start_date.exc # "None" THEN raised(start_date.exc, "")
        ELSE IF done_date.exc # "None" THEN raised(done_date.exc, "")
        ELSE IF m = None THEN raised("UnboundLocalError", "")
        ELSE IF state_of(m[1]) = "invalid" THEN raised("InvalidState", m[1])
        ELSE [exc |-> "None", arg |-> "",
              task |-> Task(title, state_of(m[1]), start_date.val, done_date.val),
              is_parent |-> is_parent]

\* a slip: the child goes to the first parent instead of the last
append_child_first(tl, task) ==
    [tl EXCEPT ![1].children = Append(@, task)]

\* a slip: the child replaces the children of the last parent
append_child_replace(tl, task) ==
    [tl EXCEPT ![Len(tl)].children = <<task>>]

\* task_list[-1].children.append(task)
append_child(tl, task) ==
    [tl EXCEPT ![Len(tl)].children = Append(@, task)]

DigitChar(n) ==
    CASE n = 0 -> "0" [] n = 1 -> "1" [] n = 2 -> "2" [] n = 3 -> "3"
      [] n = 4 -> "4" [] n = 5 -> "5" [] n = 6 -> "6" [] n = 7 -> "7"
      [] n = 8 -> "8" [] n = 9 -> "9"

Two(n) == <<DigitChar(n \div 10), DigitChar(n % 10)>>

\* d.strftime("%m/%d") if d else ""
fmtdate(d) == IF d = None THEN <<>> ELSE Two(d[2]) \o <<"/">> \o Two(d[3])

\* mark + d + mark if d else ""
wrap(mark, d) == IF d # <<>> THEN mark \o d \o mark ELSE <<>>

\* a slip: the two tests of the if / elif in the other order
row_style_today_first(subtask, td) ==
    IF td \in {subtask.start_date, subtask.done_date} THEN "bold"
    ELSE IF subtask.state = "CANCELLED" THEN "strike"
    ELSE "plain"

\* which styling write_table gives a subtask's row
row_style(subtask, td) ==
    IF subtask.state = "CANCELLED" THEN "strike"
    ELSE IF td \in {subtask.start_date, subtask.done_date} THEN "bold"
    ELSE "plain"

\* one row of write_table's DataFrame
table_row(subtask, td) ==
    LET subtask_data == <<subtask.title, config.state_str[subtask.state],
                          fmtdate(subtask.start_date), fmtdate(subtask.done_date)>>
        style == row_style(subtask, td)
    IN  IF style = "strike" THEN [k \in 1..4 |-> wrap(<<"~", "~">>, subtask_data[k])]
        ELSE IF style = "bold" THEN [k \in 1..4 |-> wrap(<<"*", "*">>, subtask_data[k])]
        ELSE subtask_data

\* TableWriter.write_table: the header line and the table (its column names
\* and rows; pandas lays them out)
write_table(task, td) ==
    [table_header |->
        task.title \o <<" ", " ", " ">> \o config.state_str[task.state]
            \o <<" ", " ", " ">> \o fmtdate(task.start_date) \o <<"~">>
            \o fmtdate(task.done_date),
     columns |-> config.columns,
     rows |-> [k \in 1..Len(task.children) |-> table_row(task.children[k], td)]]

-----------------------------------------------------------------------------
(* main(): one action per step                                             *)

Raise(e) ==
    /\ pc' = "failed"
    /\ exc' = e

\* load_config(): open("config.json") and Config(**config)
LoadConfig ==
    /\ pc = "load_config"
    /\ IF files = "no_config"
           THEN Raise([type |-> "FileNotFoundError", arg |-> ""])
           ELSE pc' = "get_task_lines" /\ exc' = exc
    /\ UNCHANGED <<files, today, note, synth, task_lines, task_list, blocks, printed>>
    /\ UNCHANGED group_vars

\* get_task_lines(dailynote_dir)
GetTaskLines ==
    /\ pc = "get_task_lines"
    /\ IF files = "no_note"
           THEN /\ Raise([type |-> "TaskListNotFound", arg |-> ""])
                /\ task_lines' = task_lines
           ELSE /\ task_lines' = get_task_lines(note)
                /\ pc' = "format_tasks"
                /\ exc' = exc
    /\ UNCHANGED <<files, today, note, synth, task_list, blocks, printed>>
    /\ UNCHANGED group_vars

\* a slip: a child line with no parent before it is skipped silently
FormatTasksStep_skip ==
    /\ pc = "format_tasks"
    /\ task_lines # <<>>
    /\ LET r == parse_line(task_lines[1], today)
       IN  IF r.exc # "None"
               THEN /\ Raise([type |-> r.exc, arg |-> r.arg])
                    /\ UNCHANGED <<task_lines, task_list>>
           ELSE IF r.is_parent
               THEN /\ task_list' = Append(task_list, r.task)
                    /\ task_lines' = Tail(task_lines)
                    /\ UNCHANGED <<pc, exc>>
           ELSE IF task_list = <<>>
               THEN /\ task_lines' = Tail(task_lines)
                    /\ UNCHANGED <<pc, exc, task_list>>
           ELSE /\ task_list' = append_child(task_list, r.task)
                /\ task_lines' = Tail(task_lines)
                /\ UNCHANGED <<pc, exc>>
    /\ UNCHANGED <<files, today, note, synth, blocks, printed>>
    /\ UNCHANGED group_vars

\* format_tasks: one iteration of its while loop
FormatTasksStep ==
    /\ pc = "format_tasks"
    /\ task_lines # <<>>
    /\ LET r == parse_line(task_lines[1], today)
       IN  IF r.exc # "None"
               THEN /\ Raise([type |-> r.exc, arg |-> r.arg])
                    /\ UNCHANGED <<task_lines, task_list>>
           ELSE IF r.is_parent
               THEN /\ task_list' = Append(task_list, r.task)
                    /\ task_lines' = Tail(task_lines)
                    /\ UNCHANGED <<pc, exc>>
           ELSE IF task_list = <<>>
               THEN /\ Raise([type |-> "IndexError", arg |-> ""])
                    /\ UNCHANGED <<task_lines, task_list>>
           ELSE /\ task_list' = append_child(task_list, r.task)
                /\ task_lines' = Tail(task_lines)
                /\ UNCHANGED <<pc, exc>>
    /\ UNCHANGED <<files, today, note, synth, blocks, printed>>
    /\ UNCHANGED group_vars

\* format_tasks: the loop ends and task_list is returned
FormatTasksReturn ==
    /\ pc = "format_tasks"
    /\ task_lines = <<>>
    /\ pc' = "write_table"
    /\ UNCHANGED <<files, today, note, synth, task_lines, task_list, blocks, printed, exc>>
    /\ UNCHANGED group_vars

\* main's list comprehension: tw.write_table(task) for the next task
WriteTable ==
    /\ pc = "write_table"
    /\ Len(blocks) < Len(task_list)
    /\ blocks' = Append(blocks, write_table(task_list[Len(blocks) + 1], today))
    /\ UNCHANGED <<files, today, note, synth, pc, task_lines, task_list, printed, exc>>
    /\ UNCHANGED group_vars

\* a slip: the header is printed before the lines are parsed
PrintReport_early ==
    /\ pc = "format_tasks"
    /\ printed = <<>>
    /\ printed' = Append(printed, [header |-> config.header, contents |-> <<>>,
                                   footer |-> <<>>])
    /\ UNCHANGED <<files, today, note, synth, pc, task_lines, task_list, blocks, exc>>
    /\ UNCHANGED group_vars

\* print("\n\n".join([header, contents, footer]))
PrintReport ==
    /\ pc = "write_table"
    /\ Len(blocks) = Len(task_list)
    /\ printed' = Append(printed, [header |-> config.header, contents |-> blocks,
                                   footer |-> config.footer])
    /\ pc' = "done"
    /\ UNCHANGED <<files, today, note, synth, task_lines, task_list, blocks, exc>>
    /\ UNCHANGED group_vars

Main == LoadConfig \/ GetTaskLines \/ FormatTasksStep \/ FormatTasksReturn
            \/ WriteTable \/ PrintReport

-----------------------------------------------------------------------------
(* The notes the run is started on.                                        *)

MaxLines == 4

Checkbox(ch) == <<"-", " ", "[", ch, "]", " ">>

\* the text MM-DD
MonthDay(m, d) == Two(m) \o <<"-">> \o Two(d)

NoteLines ==
    { Checkbox(" ") \o <<"A", "\n">>,
      Checkbox("/") \o <<"B", " ", "#", "w", "/", "m", "\n">>,
      <<"\t">> \o Checkbox("x") \o <<"a", " ", START_GLYPH, " ">> \o MonthDay(3, 1) \o <<"\n">>,
      <<"\t">> \o Checkbox("-") \o <<"b", " ", DONE_GLYPH, " ">> \o MonthDay(3, 1) \o <<"\n">>,
      <<"\t">> \o Checkbox(" ") \o <<"c", "\f">>,
      <<"\t", "\t">> \o Checkbox(" ") \o <<"g", "\n">>,
      <<"n", "\n">>,
      <<"\t">> \o Checkbox("?") \o <<"X", "\n">>,
      Checkbox("x") \o <<"#", "t", "\n">>,
      Checkbox("x") \o <<"C", " ", START_GLYPH, " ">> \o MonthDay(2, 29) \o <<"\n">> }

\* every sequence of at most n lines drawn from L
RECURSIVE SeqsUpTo(_, _)
SeqsUpTo(L, n) ==
    IF n = 0 THEN {<<>>}
    ELSE LET shorter == SeqsUpTo(L, n - 1)
         IN  shorter \cup {Append(q, l) : q \in {r \in shorter : Len(r) = n - 1}, l \in L}

\* what f.readlines() can return: only the last line may lack its newline
Notes(L, n) ==
    {q \in SeqsUpTo(L, n) : \A k \in 1..(Len(q) - 1) : q[k][Len(q[k])] = "\n"}

\* main() has not started; the group pass is not in use
MainStart ==
    /\ pc = "load_config"
    /\ task_lines = <<>>
    /\ task_list = <<>>
    /\ blocks = <<>>
    /\ printed = <<>>
    /\ exc = [type |-> "None", arg |-> ""]
    /\ g_in = <<>>
    /\ g_out = <<>>
    /\ g_pc = "idle"

\* a date written on a line: year 0 for a date without a year; twice for a
\* second marker after it; sep the character after the glyph; zero the zero
\* of the script the digits are written in
Frag(y, m, d, t) ==
    [year |-> y, month |-> m, day |-> d, twice |-> t, sep |-> " ", zero |-> "0"]

\* the same date in fullwidth digits after an ideographic space
Wide(f) == [f EXCEPT !.sep = "U+3000", !.zero = "U+FF10"]

\* the same date in Arabic-Indic digits after a form feed
Indic(f) == [f EXCEPT !.sep = "\f", !.zero = "U+0660"]

\* no synthetic line
NoSynth ==
    [kind |-> "none", ch |-> "", child |-> FALSE, title |-> <<>>,
     start |-> Frag(0, 0, 0, FALSE), done |-> Frag(0, 0, 0, FALSE)]

Init ==
    /\ today = <<2023, 3, 1>>
    /\ synth = NoSynth
    /\ \/ files = "ok" /\ note \in Notes(NoteLines, MaxLines)
       \/ files \in {"no_config", "no_note"} /\ note = <<>>
    /\ MainStart

Next == Main

Spec == Init /\ [][Next]_vars

-----------------------------------------------------------------------------
(* What the claims speak of.                                               *)

\* format_tasks has returned its task list
Returned == pc \in {"write_table", "done"}

\* the checklist lines format_tasks was called on
InputLines == get_task_lines(note)

\* the positions of the depth-0 lines of L
ParentLines(L) == {i \in 1..Len(L) : count_tabs(L[i]) = 0}

\* the position of the k-th depth-0 line of L
KthParent(L, k) ==
    CHOOSE i \in ParentLines(L) : Cardinality({j \in ParentLines(L) : j <= i}) = k

\* the position where the block owned by the k-th depth-0 line ends
BlockEnd(L, k) ==
    IF k = Cardinality(ParentLines(L)) THEN Len(L) ELSE KthParent(L, k + 1) - 1

\* the Task of line i of L
TaskOf(L, i) == parse_line(L[i], today).task

\* C1: when format_tasks returns, task_list holds one parent Task per depth-0
\* line, in line order, and the children of each parent are the Tasks of the
\* indented lines between it and the next depth-0 line, in line order (none
\* when the next line is a depth-0 line or the input ends).
C1_Hierarchy ==
    Returned =>
        LET L == InputLines
        IN  /\ Len(task_list) = Cardinality(ParentLines(L))
            /\ \A k \in 1..Len(task_list) :
                 LET p == KthParent(L, k)
                     e == BlockEnd(L, k)
                 IN  /\ [task_list[k] EXCEPT !.children = <<>>] = TaskOf(L, p)
                     /\ Len(task_list[k].children) = e - p
                     /\ \A c \in 1..(e - p) :
                          task_list[k].children[c] = TaskOf(L, p + c)

\* a parent with two children in line order, followed by a parent with none
C1_Witness ==
    /\ pc = "done"
    /\ Len(task_list) = 2
    /\ Len(task_list[1].children) = 2
    /\ task_list[1].children[1].title = <<"a">>
    /\ task_list[1].children[2].title = <<"b">>
    /\ task_list[2].children = <<>>

\* the number of Tasks in a hierarchy: the parents and all their children
RECURSIVE TaskCount(_)
TaskCount(tl) ==
    IF tl = <<>> THEN 0 ELSE 1 + Len(Head(tl).children) + TaskCount(Tail(tl))

\* the exceptions that leave format_tasks
FormatErrors == {"ValueError", "UnboundLocalError", "InvalidState", "IndexError"}

\* format_tasks is running, has returned, or has raised
InFormat == pc \in {"format_tasks", "write_table", "done"}
                \/ (pc = "failed" /\ exc.type \in FormatErrors)

\* C10 (state part): the lines still in the input list are a suffix of the
\* lines format_tasks was called on, and the Tasks in the hierarchy are as many
\* as the lines consumed; on normal return the list is empty; no child has
\* children; after a failure the failing line is still the first of the list.
C10_State ==
    InFormat =>
        LET L == InputLines
            n == TaskCount(task_list)
        IN  /\ n + Len(task_lines) = Len(L)
            /\ task_lines = SubSeq(L, n + 1, Len(L))
            /\ \A k \in 1..Len(task_list) : \A c \in 1..Len(task_list[k].children) :
                 task_list[k].children[c].children = <<>>
            /\ Returned => task_lines = <<>> /\ n = Len(L)
            /\ pc = "failed" =>
                 /\ task_lines # <<>>
                 /\ \/ parse_line(task_lines[1], today).exc = exc.type
                    \/ /\ exc.type = "IndexError"
                       /\ parse_line(task_lines[1], today).exc = "None"
                       /\ ~parse_line(task_lines[1], today).is_parent
                       /\ task_list = <<>>

\* C10 (step part): every iteration that does not raise deletes exactly the
\* first line of the list and adds exactly one Task
C10_Step ==
    (pc = "format_tasks" /\ pc' = "format_tasks") =>
        /\ task_lines # <<>>
        /\ task_lines' = Tail(task_lines)
        /\ TaskCount(task_list') = TaskCount(task_list) + 1

\* C10: format_tasks consumes its input one line per iteration from the
\* front and ends; every line consumed is exactly one Task of the hierarchy,
\* which is two levels deep; on normal return no line is left, and after a
\* failure the failing line and all lines after it are still in the list.
C10_Conservation == [](C10_State) /\ [][C10_Step]_vars

\* format_tasks returned on four lines: two parents and two children
C10_Witness ==
    /\ pc = "write_table"
    /\ Len(InputLines) = 4
    /\ task_lines = <<>>
    /\ Len(task_list) = 2
    /\ TaskCount(task_list) = 4

\* C5: print is called at most once, only when every line has been parsed
\* and every parent rendered, and never in a run that raised
C5_NoPartialOutput ==
    /\ Len(printed) <= 1
    /\ pc = "failed" => printed = <<>>
    /\ printed # <<>> =>
         /\ pc = "done"
         /\ exc.type = "None"
         /\ task_lines = <<>>
         /\ TaskCount(task_list) = Len(InputLines)
         /\ Len(blocks) = Len(task_list)
         /\ printed[1].contents =
              [k \in 1..Len(task_list) |-> write_table(task_list[k], today)]

\* a report of two rendered parents has been printed
C5_Witness ==
    /\ pc = "done"
    /\ Len(printed) = 1
    /\ Len(printed[1].contents) = 2

\* the checklist grammar: at most one tab, "- [", one character, "] ", then
\* text on one line, with or without its newline
Grammar(line) ==
    \E t \in {0, 1} :
        /\ Len(line) >= t + 6
        /\ SubSeq(line, 1, t) = [k \in 1..t |-> "\t"]
        /\ SubSeq(line, t + 1, t + 3) = <<"-", " ", "[">>
        /\ line[t + 4] # "\n"
        /\ SubSeq(line, t + 5, t + 6) = <<"]", " ">>
        /\ \A k \in (t + 7)..(Len(line) - 1) : line[k] # "\n"

\* the positions of the note's lines that follow the grammar
Accepted == {i \in 1..Len(note) : Grammar(note[i])}

\* the position of the k-th such line
KthAccepted(k) ==
    CHOOSE i \in Accepted : Cardinality({j \in Accepted : j <= i}) = k

\* C7: when get_task_lines returns, its result holds exactly the note's lines
\* that follow the grammar, in note order (each with its tags removed and
\* right-trimmed); reading an existing note raises nothing, and the hierarchy
\* never holds more Tasks than there are such lines.
C7_Filter ==
    /\ (pc = "format_tasks" /\ task_list = <<>>) =>
         /\ Len(task_lines) = Cardinality(Accepted)
         /\ \A k \in 1..Len(task_lines) :
              task_lines[k] = rstrip(sub_tags(note[KthAccepted(k)], 1))
    /\ (pc = "failed" /\ exc.type = "TaskListNotFound") => files = "no_note"
    /\ TaskCount(task_list) <= Cardinality(Accepted)

\* a note with a two-tab checklist line and a plain line, both dropped, and
\* two lines kept
C7_Witness ==
    /\ pc = "format_tasks"
    /\ task_list = <<>>
    /\ Len(task_lines) = 2
    /\ Len(note) = 4
    /\ \E i \in 1..4 : count_tabs(note[i]) = 2
    /\ \E i \in 1..4 : note[i] = <<"n", "\n">>

\* the first checklist line is indented
OrphanFirst == InFormat /\ InputLines # <<>> /\ count_tabs(InputLines[1]) > 0

\* C4 as claimed: when the first checklist line is indented, format_tasks
\* fails with the malformed-hierarchy error (the IndexError of task_list[-1])
C4_AsClaimed ==
    (OrphanFirst /\ pc # "format_tasks") => (pc = "failed" /\ exc.type = "IndexError")

\* C4 amended: when the first checklist line is indented, format_tasks raises
\* on that line and returns no list, and no Task is built, rendered or
\* printed; the exception is the IndexError when the line itself parses and
\* the exception of parse_line when it does not, parse_line being called first
C4_OrphanFails ==
    OrphanFirst =>
        /\ task_list = <<>>
        /\ blocks = <<>>
        /\ printed = <<>>
        /\ task_lines = InputLines
        /\ pc \in {"format_tasks", "failed"}
        /\ pc = "failed" =>
             exc.type = (IF parse_line(InputLines[1], today).exc = "None"
                             THEN "IndexError"
                             ELSE parse_line(InputLines[1], today).exc)

\* the run failed with the IndexError on an indented first line that parses
C4_Witness ==
    /\ OrphanFirst
    /\ pc = "failed"
    /\ exc.type = "IndexError"
    /\ parse_line(InputLines[1], today).exc = "None"

\* the cells of a subtask's row before styling
RawCells(subtask) ==
    <<subtask.title, config.state_str[subtask.state],
      fmtdate(subtask.start_date), fmtdate(subtask.done_date)>>

Strike == <<"~", "~">>

Bold == <<"*", "*">>

\* cell is raw between two marks
Wrapped(cell, mark, raw) == cell = mark \o raw \o mark

\* C6: in every rendered table, a CANCELLED child's non-empty cells are all
\* in strikethrough (also when today is its start or done date); otherwise,
\* when today is its start or done date, its non-empty cells are all in bold;
\* otherwise its cells are unstyled; an empty cell is never wrapped.
C6_RowStyling ==
    \A k \in 1..Len(blocks) :
        /\ Len(blocks[k].rows) = Len(task_list[k].children)
        /\ \A r \in 1..Len(blocks[k].rows) :
             LET child == task_list[k].children[r]
                 raw == RawCells(child)
                 row == blocks[k].rows[r]
                 is_today == today \in {child.start_date, child.done_date}
             IN  \A c \in 1..4 :
                   /\ raw[c] = <<>> => row[c] = <<>>
                   /\ (raw[c] # <<>> /\ child.state = "CANCELLED")
                        => Wrapped(row[c], Strike, raw[c])
                   /\ (raw[c] # <<>> /\ child.state # "CANCELLED" /\ is_today)
                        => Wrapped(row[c], Bold, raw[c])
                   /\ (raw[c] # <<>> /\ child.state # "CANCELLED" /\ ~is_today)
                        => row[c] = raw[c]

\* a table with a CANCELLED child whose done date is today and a child that
\* was started today and is not cancelled
C6_Witness ==
    \E k \in 1..Len(blocks) : \E r1, r2 \in 1..Len(blocks[k].rows) :
        /\ task_list[k].children[r1].state = "CANCELLED"
        /\ task_list[k].children[r1].done_date = today
        /\ Wrapped(blocks[k].rows[r1][1], Strike, <<"b">>)
        /\ blocks[k].rows[r1][3] = <<>>
        /\ task_list[k].children[r2].state = "DONE"
        /\ task_list[k].children[r2].start_date = today
        /\ Wrapped(blocks[k].rows[r2][1], Bold, <<"a">>)

-----------------------------------------------------------------------------
(* Runs on one synthetic line.                                             *)

\* the digit n in the script whose zero is the character zero
ScriptDigit(zero, n) ==
    DecimalDigits[CHOOSE b \in 1..Len(DecimalDigits) : DecimalDigits[b][1] = zero][n + 1]

TwoIn(zero, n) == <<ScriptDigit(zero, n \div 10), ScriptDigit(zero, n % 10)>>

Year4(zero, y) ==
    <<ScriptDigit(zero, y \div 1000), ScriptDigit(zero, (y \div 100) % 10),
      ScriptDigit(zero, (y \div 10) % 10), ScriptDigit(zero, y % 10)>>

\* a date marker: the glyph, a whitespace character, and MM-DD or YYYY-MM-DD
\* in the digits of one script; with twice, a second marker of the same
\* glyph and another date after it
Marker(glyph, f) ==
    <<glyph, f.sep>>
        \o (IF f.year = 0 THEN <<>> ELSE Year4(f.zero, f.year) \o <<"-">>)
        \o TwoIn(f.zero, f.month) \o <<"-">> \o TwoIn(f.zero, f.day)
        \o (IF f.twice THEN <<" ", glyph, " ">> \o MonthDay(1, 5) ELSE <<>>)

\* the tokens of q with one space between them
RECURSIVE Join(_)
Join(q) ==
    IF q = <<>> THEN <<>>
    ELSE IF Len(q) = 1 THEN q[1]
    ELSE q[1] \o <<" ">> \o Join(Tail(q))

Orders == {p \in [1..4 -> 1..4] : \A i, j \in 1..4 : p[i] = p[j] => i = j}

TagToken == <<"#", "w", "/", "m">>

\* the line made of the parts y, its tokens in the order p
SynthLine(y, p, nl) ==
    LET toks == <<y.title, Marker(START_GLYPH, y.start), Marker(DONE_GLYPH, y.done),
                  TagToken>>
    IN  (IF y.child THEN <<"\t">> ELSE <<>>) \o Checkbox(y.ch)
            \o Join([k \in 1..4 |-> toks[p[k]]]) \o nl

\* a line with nothing but text after its checkbox
BareLine(y, nl) ==
    (IF y.child THEN <<"\t">> ELSE <<>>) \o Checkbox(y.ch) \o y.title \o nl

\* the note holding the line: a child line comes after a parent line
NoteOf(y, line) ==
    IF y.child THEN <<Checkbox(" ") \o <<"P", "\n">>, line>> ELSE <<line>>

StartFrags ==
    {Frag(0, 2, 10, FALSE), Frag(2022, 2, 10, FALSE), Frag(0, 6, 30, TRUE),
     Wide(Frag(0, 3, 1, FALSE))}

DoneFrags ==
    {Frag(0, 3, 1, FALSE), Frag(2020, 12, 25, FALSE), Frag(0, 2, 29, FALSE),
     Indic(Frag(2020, 12, 25, FALSE))}

InitParse ==
    /\ today \in {<<2024, 3, 1>>, <<2023, 3, 1>>}
    /\ files = "ok"
    /\ \/ /\ synth \in [kind : {"full"}, ch : {" ", "/", "x", "-"}, child : BOOLEAN,
                        title : {<<"A", " ", "B">>}, start : StartFrags,
                        done : DoneFrags]
          /\ \E p \in Orders : \E nl \in {<<>>, <<"\n">>} :
                note = NoteOf(synth, SynthLine(synth, p, nl))
       \/ /\ synth \in [kind : {"bare"}, ch : {" ", "/", "x", "-", "?", "#"},
                        child : BOOLEAN,
                        title : {<<>>, <<"X">>, <<"#", "t">>, <<"X", "U+00A0">>,
                                 <<"\f">>},
                        start : {NoSynth.start}, done : {NoSynth.done}]
          /\ \E nl \in {<<>>, <<"\n">>} : note = NoteOf(synth, BareLine(synth, nl))
    /\ MainStart

SpecParse == InitParse /\ [][Next]_vars

\* one line with one start or done marker, for every month and day text
InitDate ==
    /\ today \in {<<2023, 3, 1>>, <<2024, 1, 2>>, <<2024, 2, 10>>, <<2024, 2, 29>>,
                  <<2024, 6, 15>>, <<2024, 12, 31>>, <<2025, 1, 1>>}
    /\ files = "ok"
    /\ \E m \in 0..13 : \E d \in 0..32 : \E g \in {"start", "done"} :
       \E f \in {Frag(0, m, d, FALSE), Wide(Frag(0, m, d, FALSE))} :
          /\ synth = [kind |-> g, ch |-> "x", child |-> FALSE, title |-> <<"A">>,
                      start |-> f, done |-> f]
          /\ note = <<Checkbox("x") \o <<"A", " ">>
                        \o Marker(IF g = "start" THEN START_GLYPH ELSE DONE_GLYPH, f)
                        \o <<"\n">>>>
    /\ MainStart

SpecDate == InitDate /\ [][Next]_vars

-----------------------------------------------------------------------------
(* Claims on one synthetic line.                                           *)

\* the synthetic line has been through get_task_lines and parse_line
Processed == pc \in {"write_table", "done", "failed"}

\* the synthetic line as it stands in the note
Subject == note[Len(note)]

\* the Task made of the synthetic line, once format_tasks has returned
SubjectTask == IF synth.child THEN task_list[1].children[1] ELSE task_list[1]

\* the state the checklist character stands for
ClaimedState(ch) ==
    IF ch = " " THEN "TODO"
    ELSE IF ch = "/" THEN "ONGOING"
    ELSE IF ch = "x" THEN "DONE"
    ELSE "CANCELLED"

\* month m, day d exists in some year
CalendarDay(m, d) == m \in 1..12 /\ d \in 1..DaysInMonth(2024, m)

\* r is month m, day d in today's year when that is not after today, and
\* otherwise in the year before
Inferred(r, m, d) ==
    /\ r # None
    /\ r[2] = m
    /\ r[3] = d
    /\ DateLE(r, today)
    /\ r[1] = (IF DateLE(<<today[1], m, d>>, today) THEN today[1] ELSE today[1] - 1)

\* C2 as claimed: for every fragment whose month and day form a calendar day
\* (02-29 included), the marker's date on the Task is the inferred date, never
\* later than today; so the line always yields a Task.
C2_AsClaimed ==
    (Processed /\ synth.kind \in {"start", "done"}
        /\ CalendarDay(synth.start.month, synth.start.day)) =>
        /\ pc # "failed"
        /\ Inferred(IF synth.kind = "start" THEN SubjectTask.start_date
                                            ELSE SubjectTask.done_date,
                    synth.start.month, synth.start.day)

\* C3 as claimed: an accepted line whose date markers resolve yields a Task
\* with the state of its bracket character when that is one of ' ', '/', 'x',
\* '-', and fails with the invalid-state error carrying the character
\* otherwise; there is no other outcome.
C3_AsClaimed ==
    (Processed /\ Grammar(Subject) /\ exc.type # "ValueError") =>
        IF synth.ch \in {" ", "/", "x", "-"}
            THEN pc # "failed" /\ SubjectTask.state = ClaimedState(synth.ch)
            ELSE pc = "failed" /\ exc = [type |-> "InvalidState", arg |-> synth.ch]

\* get_date can resolve month m, day d today
Resolvable(m, d) ==
    /\ ValidDate(today[1], m, d)
    /\ DateLE(<<today[1], m, d>>, today) \/ ValidDate(today[1] - 1, m, d)

\* the date a marker spells out: with its year when it has one
Embedded(r, f) ==
    IF f.year # 0 THEN r = <<f.year, f.month, f.day>>
    ELSE Inferred(r, f.month, f.day)

\* C8 as claimed: the Task of a line made of a checkbox, a start marker, a
\* done marker, a hashtag and a title has the title (trimmed) as its title,
\* the state of the checkbox, and the dates its markers spell out, also when
\* a marker has the YYYY-MM-DD form.
C8_AsClaimed ==
    (Returned /\ synth.kind = "full") =>
        /\ SubjectTask.title = synth.title
        /\ SubjectTask.state = ClaimedState(synth.ch)
        /\ Embedded(SubjectTask.start_date, synth.start)
        /\ Embedded(SubjectTask.done_date, synth.done)

\* C8 amended: for such a line with one of the four state characters, the
\* Task has the title (trimmed, free of checkbox, markers and hashtag), the
\* state of the checkbox, and for each marker the date inferred from the month
\* and day of its first occurrence, the year of a YYYY-MM-DD marker being
\* ignored; when a month and day cannot be resolved, parsing raises
\* ValueError and yields no Task.
C8_RoundTrip ==
    (Processed /\ synth.kind = "full") =>
        IF /\ Resolvable(synth.start.month, synth.start.day)
           /\ Resolvable(synth.done.month, synth.done.day)
            THEN /\ pc # "failed"
                 /\ SubjectTask.title = synth.title
                 /\ SubjectTask.state = ClaimedState(synth.ch)
                 /\ Inferred(SubjectTask.start_date, synth.start.month,
                             synth.start.day)
                 /\ Inferred(SubjectTask.done_date, synth.done.month, synth.done.day)
            ELSE /\ pc = "failed"
                 /\ exc.type = "ValueError"
                 /\ TaskCount(task_list) = Len(note) - 1

\* a child line whose start marker occurs twice and whose done marker has a
\* year other than the inferred one was parsed into a Task
C8_Witness ==
    /\ pc = "done"
    /\ synth.kind = "full"
    /\ synth.child
    /\ synth.start.twice
    /\ synth.done.year = 2020
    /\ SubjectTask.start_date = <<2023, 6, 30>>
    /\ SubjectTask.done_date = <<2023, 12, 25>>
    /\ SubjectTask.title = <<"A", " ", "B">>

-----------------------------------------------------------------------------
(* The tag-grouping mode: Tag Classifier and Group-Sort-Merge pass.        *)

MaxTasks == 3

\* the configured tag taxonomy: for each level, the known tags with their
\* classification and the default classification
taxonomy ==
    [parent |-> [known |-> {"work", "home"},
                 of |-> [t \in {"work", "home"} |->
                           IF t = "work" THEN [id |-> 1, name |-> "Work"]
                                         ELSE [id |-> 2, name |-> "Home"]],
                 default |-> [id |-> 9, name |-> "Other"]],
     child |-> [known |-> {"meeting"},
                of |-> [t \in {"meeting"} |-> [id |-> 1, name |-> "Meeting"]],
                default |-> [id |-> 9, name |-> "Misc"]]]

\* classify(tag, level): the configured classification, or the level's default
classify(tag, level) ==
    IF tag \in taxonomy[level].known THEN taxonomy[level].of[tag]
    ELSE taxonomy[level].default

parent_id(t) == classify(t.parent_tag, "parent").id

child_id(t) == classify(t.child_tag, "child").id

\* t put into the sorted sequence q after every element whose key is not larger
RECURSIVE insert_by(_, _, _)
insert_by(level, q, t) ==
    LET key(x) == IF level = "parent" THEN parent_id(x) ELSE child_id(x)
    IN  IF q = <<>> THEN <<t>>
        ELSE IF key(Head(q)) <= key(t) THEN <<Head(q)>> \o insert_by(level, Tail(q), t)
        ELSE <<t>> \o q

\* a stable sort of q by the classification id of one level
RECURSIVE stable_sort(_, _)
stable_sort(level, q) ==
    IF q = <<>> THEN <<>>
    ELSE insert_by(level, stable_sort(level, SubSeq(q, 1, Len(q) - 1)), q[Len(q)])

\* the forward scan: adjacent tasks with the same raw tag pair are folded into
\* one, whose content is the first content, a newline, and the second
RECURSIVE merge_scan(_)
merge_scan(q) ==
    IF Len(q) <= 1 THEN q
    ELSE IF q[1].parent_tag = q[2].parent_tag /\ q[1].child_tag = q[2].child_tag
        THEN merge_scan(<<[q[1] EXCEPT !.content = @ \o <<"\n">> \o q[2].content]>>
                            \o SubSeq(q, 3, Len(q)))
    ELSE <<q[1]>> \o merge_scan(Tail(q))

\* group(tasks)
group(tasks) == merge_scan(stable_sort("parent", stable_sort("child", tasks)))

\* the pass is run on the tasks handed to it
Group ==
    /\ g_pc = "start"
    /\ g_out' = group(g_in)
    /\ g_pc' = "done"
    /\ UNCHANGED <<files, today, note, synth, pc, task_lines, task_list, blocks,
                   printed, exc, g_in>>

\* the tag-grouped tasks the pass is tried on: the content names the position
TagPairs == {"work", "home", "w2", "w3", ""} \X {"meeting", "m2", ""}

InitGroup ==
    /\ g_pc = "start"
    /\ g_out = <<>>
    /\ \E n \in 0..MaxTasks : \E tags \in [1..n -> TagPairs] :
          g_in = [k \in 1..n |-> [parent_tag |-> tags[k][1], child_tag |-> tags[k][2],
                                  content |-> <<DigitChar(k)>>]]
    /\ files = "ok"
    /\ today = <<2023, 3, 1>>
    /\ note = <<>>
    /\ synth = NoSynth
    /\ pc = "idle"
    /\ task_lines = <<>>
    /\ task_list = <<>>
    /\ blocks = <<>>
    /\ printed = <<>>
    /\ exc = [type |-> "None", arg |-> ""]

NextGroup == Group

SpecGroup == InitGroup /\ [][NextGroup]_vars

\* C9 as claimed: after the pass no two adjacent tasks of the output have the
\* same (parent classification id, child classification id) pair, also when
\* different raw tags resolve to the same id.
C9_AsClaimed ==
    g_pc = "done" =>
        \A i \in 1..(Len(g_out) - 1) :
            <<parent_id(g_out[i]), child_id(g_out[i])>>
                # <<parent_id(g_out[i + 1]), child_id(g_out[i + 1])>>

=============================================================================
